---- MODULE Spec2Model ----
(***************************************************************************)
(* Model of train1.py: the command-line entry point `main` that loads the  *)
(* YAML configuration, builds the checkpoint callback and the trainer,     *)
(* resolves the checkpoint to resume from, runs trainer.fit and, in        *)
(* finetune mode, saves a final weights-only checkpoint.                   *)
(*                                                                         *)
(* Strings are sequences of one-character strings, a path is a sequence of *)
(* components, and the file system is the set of paths of its files plus   *)
(* the set of paths of its directories.                                    *)
(***************************************************************************)
EXTENDS Integers, Sequences, FiniteSets, TLC

(***************************************************************************)
(* String constants of the program.                                        *)
(***************************************************************************)
CKPT == <<"c", "k", "p", "t">>
STEP_EQ == <<"s", "t", "e", "p", "=">>
DOT_CKPT == <<".", "c", "k", "p", "t">>
SLASH == <<"/">>
NoneVal == << >>

DigitVal ==
  ("0" :> 0) @@ ("1" :> 1) @@ ("2" :> 2) @@ ("3" :> 3) @@ ("4" :> 4) @@
  ("5" :> 5) @@ ("6" :> 6) @@ ("7" :> 7) @@ ("8" :> 8) @@ ("9" :> 9)

DigitChar == <<"0", "1", "2", "3", "4", "5", "6", "7", "8", "9">>

IsDigit(c) == c \in DOMAIN DigitVal

Last(s) == s[Len(s)]

DropFirst(s, n) == SubSeq(s, n + 1, Len(s))

StartsWith(s, pre) == Len(s) >= Len(pre) /\ SubSeq(s, 1, Len(pre)) = pre

EndsWith(s, suf) ==
  Len(s) >= Len(suf) /\ SubSeq(s, Len(s) - Len(suf) + 1, Len(s)) = suf

(***************************************************************************)
(* str.split(sep): the pieces between the occurrences of sep, found from   *)
(* the left without overlap.  The result is never empty.                   *)
(***************************************************************************)
RECURSIVE SplitFrom(_, _, _)
SplitFrom(s, sep, piece) ==
  IF s = << >> THEN <<piece>>
  ELSE IF StartsWith(s, sep)
       THEN <<piece>> \o SplitFrom(DropFirst(s, Len(sep)), sep, << >>)
       ELSE SplitFrom(Tail(s), sep, Append(piece, Head(s)))

Split(s, sep) == SplitFrom(s, sep, << >>)

(***************************************************************************)
(* int(text) of Python: surrounding blanks are stripped, one sign is       *)
(* allowed, then decimal digits with single underscores between digits.    *)
(* Anything else raises ValueError (ok = FALSE).                           *)
(***************************************************************************)
RECURSIVE LStrip(_)
LStrip(s) == IF s # << >> /\ Head(s) = " " THEN LStrip(Tail(s)) ELSE s

RECURSIVE RStrip(_)
RStrip(s) ==
  IF s # << >> /\ Last(s) = " " THEN RStrip(SubSeq(s, 1, Len(s) - 1)) ELSE s

Strip(s) == RStrip(LStrip(s))

ValidDigits(s) ==
  /\ Len(s) >= 1
  /\ IsDigit(s[1])
  /\ IsDigit(s[Len(s)])
  /\ \A i \in 1..Len(s) : IsDigit(s[i]) \/ s[i] = "_"
  /\ \A i \in 1..(Len(s) - 1) : ~(s[i] = "_" /\ s[i + 1] = "_")

RECURSIVE DigitsValue(_, _)
DigitsValue(s, acc) ==
  IF s = << >> THEN acc
  ELSE IF Head(s) = "_" THEN DigitsValue(Tail(s), acc)
       ELSE DigitsValue(Tail(s), 10 * acc + DigitVal[Head(s)])

PyInt(text) ==
  LET t == Strip(text)
      signed == t # << >> /\ Head(t) \in {"+", "-"}
      body == IF signed THEN Tail(t) ELSE t
  IN  IF ValidDigits(body)
      THEN [ok |-> TRUE,
            val |-> IF signed /\ Head(t) = "-"
                    THEN 0 - DigitsValue(body, 0)
                    ELSE DigitsValue(body, 0)]
      ELSE [ok |-> FALSE, val |-> 0]

(***************************************************************************)
(* The '{step}' file name of ModelCheckpoint: "step=" and the decimal      *)
(* digits of the global step.                                              *)
(***************************************************************************)
RECURSIVE FormatInt(_)
FormatInt(n) ==
  IF n < 10 THEN <<DigitChar[n + 1]>>
  ELSE Append(FormatInt(n \div 10), DigitChar[(n % 10) + 1])

StepFileName(n) == STEP_EQ \o FormatInt(n) \o DOT_CKPT

(***************************************************************************)
(* pathlib: joining, str(), name, stem and the match of rglob("*.ckpt").   *)
(***************************************************************************)
PathOf(text) ==
  SelectSeq(Split(text, SLASH), LAMBDA c : c # << >> /\ c # <<".">>)

PathJoin(p, text) == p \o PathOf(text)

RECURSIVE PathStr(_)
PathStr(p) ==
  IF p = << >> THEN <<".">>
  ELSE IF Len(p) = 1 THEN p[1]
       ELSE PathStr(SubSeq(p, 1, Len(p) - 1)) \o SLASH \o Last(p)

Name(p) == Last(p)

Parent(p) == SubSeq(p, 1, Len(p) - 1)

\* index of the last "." of a name, 0 when there is none
RECURSIVE RFindDot(_, _)
RFindDot(name, i) ==
  IF i = 0 THEN 0 ELSE IF name[i] = "." THEN i ELSE RFindDot(name, i - 1)

Stem(p) ==
  LET name == Name(p)
      i == RFindDot(name, Len(name))
  IN  IF 1 < i /\ i < Len(name) THEN SubSeq(name, 1, i - 1) ELSE name

IsUnder(p, base) == Len(p) > Len(base) /\ SubSeq(p, 1, Len(base)) = base

(***************************************************************************)
(* Bounds of the model.                                                    *)
(***************************************************************************)
\* config["optimizer_config"]["total_steps"], the max_steps of the trainer
TotalSteps == 10
\* the most files the user copies into the checkpoint area
MaxUserFiles == 2

(***************************************************************************)
(* The inputs: the model name, the contents of the two YAML mappings and   *)
(* the files a user may put under the checkpoint directory between runs.   *)
(***************************************************************************)
ModelName == <<"m">>
PretrainedPath == <<"p", ".", "c", "k", "p", "t">>

ConfigKeys == {"model_name", "num_ckpt_keep", "val_check_interval"}

Configs(keeps, intervals) ==
  UNION {{[k \in S |-> IF k = "model_name" THEN ModelName
                       ELSE IF k = "num_ckpt_keep" THEN a ELSE b] :
            a \in keeps, b \in intervals} : S \in SUBSET ConfigKeys}

RunConfigs == Configs({1, 2}, {5})
GlobalConfigs == Configs({2}, {10})

EmptyConfig == [k \in {} |-> 0]

FileStatus == {"ok", "missing", "malformed"}

SaveDir == <<CKPT, ModelName>>

UserFiles ==
  { SaveDir \o <<<<"v">>, StepFileName(10)>>,
    SaveDir \o <<<<"l", "a", "s", "t">> \o DOT_CKPT>>,
    SaveDir \o <<STEP_EQ \o <<"5", "-", "v", "1">> \o DOT_CKPT>>,
    SaveDir \o <<STEP_EQ \o <<"2", "0", ".", "t", "x", "t">>>> }

Unbound == [kind |-> "unbound"]
PyNone == [kind |-> "None"]
ProgressBar_callback == [kind |-> "ProgressBar"]

VARIABLES
  files,                 \* the paths of the files under ckpt/
  weights_files,         \* those of them that save_checkpoint wrote
  yaml_files,            \* the state of the three YAML files main reads
  dirs,                  \* the paths of the directories under and with ckpt/
  pc,                    \* the position of main
  exception,             \* the unhandled exception that ended main, or ""
  resume, ft, pretrained_model_path,      \* the command-line options
  config, config_global, \* the two YAML mappings
  checkpoint_callback, trainer,
  loaded,                \* load_pretrained was called on the model
  ckpt_path,
  fit_calls,             \* the ckpt_path of every call of trainer.fit
  fit_returned,
  global_step, best_k_models,             \* the trainer inside fit
  save_calls             \* the calls of trainer.save_checkpoint

vars ==
  <<files, weights_files, yaml_files, dirs, pc, exception, resume, ft, pretrained_model_path, config,
    config_global, checkpoint_callback, trainer, loaded, ckpt_path, fit_calls,
    fit_returned, global_step, best_k_models, save_calls>>

fsVars == <<files, weights_files, dirs>>
optVars == <<resume, ft, pretrained_model_path, yaml_files>>
cfgVars == <<config, config_global>>
buildVars == <<checkpoint_callback, trainer>>
startVars == <<loaded, ckpt_path>>
fitVars == <<fit_calls, fit_returned, global_step, best_k_models>>

Init ==
  /\ files = {}
  /\ weights_files = {}
  /\ yaml_files = [i \in 1..3 |-> "ok"]
  /\ dirs = {}
  /\ pc = "idle"
  /\ exception = ""
  /\ resume = FALSE
  /\ ft = FALSE
  /\ pretrained_model_path = NoneVal
  /\ config = EmptyConfig
  /\ config_global = EmptyConfig
  /\ checkpoint_callback = Unbound
  /\ trainer = Unbound
  /\ loaded = FALSE
  /\ ckpt_path = NoneVal
  /\ fit_calls = << >>
  /\ fit_returned = FALSE
  /\ global_step = 0
  /\ best_k_models = {}
  /\ save_calls = << >>

Raise(e) == pc' = "failed" /\ exception' = e

(***************************************************************************)
(* main is called with the options click parsed.  The files it will read,  *)
(* config_path, vocab.yaml and global_config.yaml in this order, are each  *)
(* there and well-formed, missing, or malformed.                           *)
(***************************************************************************)
StartMain ==
  /\ pc = "idle"
  /\ pc' = "open"
  /\ yaml_files' \in [1..3 -> FileStatus]
  /\ resume' \in BOOLEAN
  /\ ft' \in BOOLEAN
  /\ pretrained_model_path' \in {NoneVal, PretrainedPath}
  /\ UNCHANGED <<fsVars, exception, cfgVars, buildVars, startVars, fitVars,
                 save_calls>>

(***************************************************************************)
(* Lines 64-72: the three files are opened and parsed in turn; the first   *)
(* one that is missing or malformed ends main.                             *)
(***************************************************************************)
\* a variant that never looks at global_config.yaml
LoadError_SkipsGlobal(statuses) ==
  LET bad == {i \in 1..2 : statuses[i] # "ok"}
      first == CHOOSE i \in bad : \A j \in bad : i <= j
  IN  IF bad = {} THEN ""
      ELSE IF statuses[first] = "missing" THEN "FileNotFoundError"
           ELSE "YAMLError"

LoadError(statuses) ==
  LET bad == {i \in 1..3 : statuses[i] # "ok"}
      first == CHOOSE i \in bad : \A j \in bad : i <= j
  IN  IF bad = {} THEN ""
      ELSE IF statuses[first] = "missing" THEN "FileNotFoundError"
           ELSE "YAMLError"

LoadConfigs ==
  /\ pc = "open"
  /\ \E run \in RunConfigs, glob \in GlobalConfigs :
       LET err == LoadError(yaml_files) IN
       IF err # ""
       THEN /\ Raise(err)
            /\ UNCHANGED cfgVars
       ELSE /\ pc' = "update"
            /\ config' = run
            /\ config_global' = glob
            /\ UNCHANGED exception
  /\ UNCHANGED <<fsVars, optVars, buildVars, startVars, fitVars, save_calls>>

(***************************************************************************)
(* Line 73: config.update(config_global).                                  *)
(***************************************************************************)
\* a variant in which the keys d already has keep their value
DictUpdate_KeepsOwn(d, other) ==
  [k \in DOMAIN d \cup DOMAIN other |->
     IF k \in DOMAIN d THEN d[k] ELSE other[k]]

DictUpdate(d, other) ==
  [k \in DOMAIN d \cup DOMAIN other |->
     IF k \in DOMAIN other THEN other[k] ELSE d[k]]

UpdateConfig ==
  /\ pc = "update"
  /\ pc' = "setup"
  /\ config' = DictUpdate(config, config_global)
  /\ UNCHANGED <<fsVars, exception, optVars, config_global, buildVars,
                 startVars, fitVars, save_calls>>

(***************************************************************************)
(* Lines 75-161: the datasets and the model are built (no effect on the    *)
(* checkpoint area), the checkpoint directory is made, then the checkpoint *)
(* callback and the trainer.  A key the effective config lacks raises      *)
(* KeyError at the line that reads it.                                     *)
(***************************************************************************)
Prefixes(p) == {SubSeq(p, 1, n) : n \in 1..Len(p)}

\* save_path.mkdir(parents=True, exist_ok=True)
Mkdir(ds, p) == ds \cup Prefixes(p)

\* a variant that builds the ModelCheckpoint in finetune mode too
CheckpointCallback_IgnoresFt(isFt, cfg, save_path) ==
  [kind |-> "ModelCheckpoint",
   dirpath |-> PathStr(save_path),
   monitor |-> "step",
   mode |-> "max",
   save_top_k |->
     IF "num_ckpt_keep" \in DOMAIN cfg THEN cfg["num_ckpt_keep"] ELSE 1,
   filename |-> "{step}",
   every_n_train_steps |->
     IF "val_check_interval" \in DOMAIN cfg THEN cfg["val_check_interval"]
     ELSE 1]

\* lines 123-134
CheckpointCallback(isFt, cfg, save_path) ==
  IF ~isFt
  THEN [kind |-> "ModelCheckpoint",
        dirpath |-> PathStr(save_path),
        monitor |-> "step",
        mode |-> "max",
        save_top_k |-> cfg["num_ckpt_keep"],
        filename |-> "{step}",
        every_n_train_steps |-> cfg["val_check_interval"]]
  ELSE PyNone

\* the keys lines 123-134 read
CallbackKeys(isFt) ==
  IF ~isFt THEN {"num_ckpt_keep", "val_check_interval"} ELSE {}

\* lines 149-161
Trainer(cfg, cb) ==
  [kind |-> "Trainer",
   default_root_dir |-> PathStr(PathJoin(<<CKPT>>, cfg["model_name"])),
   val_check_interval |-> cfg["val_check_interval"],
   max_steps |-> TotalSteps,
   callbacks |-> <<cb, ProgressBar_callback>>]

Setup ==
  /\ pc = "setup"
  /\ IF "model_name" \notin DOMAIN config
     THEN /\ Raise("KeyError")
          /\ UNCHANGED <<dirs, buildVars>>
     ELSE LET save_path == PathJoin(<<CKPT>>, config["model_name"]) IN
          /\ dirs' = Mkdir(dirs, save_path)
          /\ IF ~(CallbackKeys(ft) \subseteq DOMAIN config)
             THEN /\ Raise("KeyError")
                  /\ UNCHANGED buildVars
             ELSE /\ checkpoint_callback' =
                       CheckpointCallback(ft, config, save_path)
                  /\ IF "val_check_interval" \notin DOMAIN config
                     THEN /\ Raise("KeyError")
                          /\ UNCHANGED trainer
                     ELSE /\ trainer' = Trainer(config, checkpoint_callback')
                          /\ pc' = "resolve"
                          /\ UNCHANGED exception
  /\ UNCHANGED <<files, weights_files, optVars, cfgVars, startVars, fitVars,
                 save_calls>>

(***************************************************************************)
(* Lines 163-174: the checkpoint to resume from.                           *)
(***************************************************************************)
\* Path.rglob("*.ckpt"): the files below base whose name matches
Rglob(base, fs) == {p \in fs : IsUnder(p, base) /\ EndsWith(Name(p), DOT_CKPT)}

\* the orders in which the scan may yield the paths of a set
Orders(S) ==
  {o \in [1..Cardinality(S) -> S] : \A x \in S : \E i \in DOMAIN o : o[i] = x}

\* the text line 172 hands to int: x.stem.split("step=")[-1]
KeyText(p) == Last(Split(Stem(p), STEP_EQ))

\* the sort key of line 172: int(x.stem.split("step=")[-1])
StepKey(p) == PyInt(KeyText(p))

\* the order of two key texts compared as strings
CharRank(c) == IF IsDigit(c) THEN DigitVal[c] + 1 ELSE 0

RECURSIVE TextGeq(_, _)
TextGeq(a, b) ==
  IF b = << >> THEN TRUE
  ELSE IF a = << >> THEN FALSE
  ELSE IF CharRank(Head(a)) # CharRank(Head(b))
       THEN CharRank(Head(a)) > CharRank(Head(b))
       ELSE TextGeq(Tail(a), Tail(b))

\* a variant that sorts by the key text, not by its number
RECURSIVE InsertByTextDesc(_, _)
InsertByTextDesc(sorted, p) ==
  IF sorted = << >> THEN <<p>>
  ELSE IF TextGeq(KeyText(Head(sorted)), KeyText(p))
       THEN <<Head(sorted)>> \o InsertByTextDesc(Tail(sorted), p)
       ELSE <<p>> \o sorted

\* sorted(..., reverse=True) is stable: of two paths with the same key the
\* one that came first stays first
RECURSIVE InsertByKeyDesc(_, _)
InsertByKeyDesc(sorted, p) ==
  IF sorted = << >> THEN <<p>>
  ELSE IF StepKey(Head(sorted)).val >= StepKey(p).val
       THEN <<Head(sorted)>> \o InsertByKeyDesc(Tail(sorted), p)
       ELSE <<p>> \o sorted

\* a variant that leaves the list as the scan yielded it
SortedByStepDesc_Unsorted(list) == list

RECURSIVE SortedByStepDesc(_)
SortedByStepDesc(list) ==
  IF list = << >> THEN << >>
  ELSE InsertByKeyDesc(SortedByStepDesc(SubSeq(list, 1, Len(list) - 1)),
                       Last(list))

\* a variant that takes element 0 of the list without looking at its length
FirstOrNone_Unguarded(ckpt_path_list) ==
  IF Len(ckpt_path_list) > 0
  THEN [err |-> "", path |-> PathStr(ckpt_path_list[1])]
  ELSE [err |-> "IndexError", path |-> NoneVal]

\* line 174
FirstOrNone(ckpt_path_list) ==
  IF Len(ckpt_path_list) > 0
  THEN [err |-> "", path |-> PathStr(ckpt_path_list[1])]
  ELSE [err |-> "", path |-> NoneVal]

\* lines 170-174 on the paths in the order the scan yields them
LatestCkpt(ckpt_path_list) ==
  IF \E i \in DOMAIN ckpt_path_list : ~StepKey(ckpt_path_list[i]).ok
  THEN [err |-> "ValueError", path |-> NoneVal]
  ELSE FirstOrNone(SortedByStepDesc(ckpt_path_list))

\* a variant that tests --resume first
StartMode_ResumeFirst(pretrained, isResume) ==
  IF isResume THEN "resume"
  ELSE IF pretrained # NoneVal THEN "pretrained" ELSE "scratch"

\* the branch lines 164 and 168 take
StartMode(pretrained, isResume) ==
  IF pretrained # NoneVal THEN "pretrained"
  ELSE IF isResume THEN "resume" ELSE "scratch"

\* the directory line 170 scans
ScanDir(cfg) == PathJoin(<<CKPT>>, cfg["model_name"])

ResolveCkpt ==
  /\ pc = "resolve"
  /\ IF StartMode(pretrained_model_path, resume) = "pretrained"
     THEN \E readable \in BOOLEAN :
            IF readable
            THEN /\ loaded' = TRUE
                 /\ pc' = "fit"
                 /\ UNCHANGED <<ckpt_path, exception>>
            ELSE /\ Raise("FileNotFoundError")
                 /\ UNCHANGED <<loaded, ckpt_path>>
     ELSE IF StartMode(pretrained_model_path, resume) = "resume"
     THEN \E order \in Orders(Rglob(ScanDir(config), files)) :
            LET latest == LatestCkpt(order) IN
            IF latest.err = ""
            THEN /\ ckpt_path' = latest.path
                 /\ pc' = "fit"
                 /\ UNCHANGED <<loaded, exception>>
            ELSE /\ Raise(latest.err)
                 /\ UNCHANGED <<loaded, ckpt_path>>
     ELSE /\ pc' = "fit"
          /\ UNCHANGED <<loaded, ckpt_path, exception>>
  /\ UNCHANGED <<fsVars, optVars, cfgVars, buildVars, fitVars, save_calls>>

(***************************************************************************)
(* Lines 177-182: trainer.fit.  The trainer is the library's: it counts    *)
(* the global step up to max_steps and lets every ModelCheckpoint among    *)
(* its callbacks save '{step}' files in its dirpath, of which the callback *)
(* keeps the save_top_k with the highest step.  A run resumed from a       *)
(* checkpoint goes on from the step that checkpoint was saved at.          *)
(***************************************************************************)
Min(a, b) == IF a <= b THEN a ELSE b

RestoredStep(path) ==
  IF path = NoneVal THEN 0
  ELSE LET key == StepKey(PathOf(path))
       IN  IF key.ok /\ key.val >= 0 THEN Min(key.val, TotalSteps) ELSE 0

CallFit ==
  /\ pc = "fit"
  /\ pc' = "training"
  /\ fit_calls' = Append(fit_calls, ckpt_path)
  /\ global_step' = RestoredStep(ckpt_path)
  /\ best_k_models' = {}
  /\ UNCHANGED <<fsVars, exception, optVars, cfgVars, buildVars, startVars,
                 fit_returned, save_calls>>

\* the ModelCheckpoint callbacks the trainer was handed
CheckpointCallbacks(t) ==
  {i \in DOMAIN t.callbacks : t.callbacks[i].kind = "ModelCheckpoint"}

\* the saved path with the lowest step
Worst(paths) ==
  CHOOSE p \in paths : \A q \in paths : StepKey(p).val <= StepKey(q).val

TrainStep ==
  /\ pc = "training"
  /\ global_step < trainer.max_steps
  /\ global_step' = global_step + 1
  /\ IF \E i \in CheckpointCallbacks(trainer) :
          /\ global_step' % trainer.callbacks[i].every_n_train_steps = 0
          /\ trainer.callbacks[i].save_top_k # 0
     THEN LET cb == trainer.callbacks[CHOOSE i \in CheckpointCallbacks(trainer) : TRUE]
              path == PathJoin(PathOf(cb.dirpath), StepFileName(global_step'))
              kept == best_k_models \cup {path}
              drop == IF cb.save_top_k > 0 /\ Cardinality(kept) > cb.save_top_k
                      THEN {Worst(kept)} ELSE {}
          IN  /\ best_k_models' = kept \ drop
              /\ files' = (files \cup {path}) \ drop
              /\ weights_files' = weights_files \ {path}
     ELSE UNCHANGED <<files, weights_files, best_k_models>>
  /\ UNCHANGED <<dirs, pc, exception, optVars, cfgVars, buildVars, startVars,
                 fit_calls, fit_returned, save_calls>>

FitReturns ==
  /\ pc = "training"
  /\ global_step >= trainer.max_steps
  /\ pc' = "after_fit"
  /\ fit_returned' = TRUE
  /\ UNCHANGED <<fsVars, exception, optVars, cfgVars, buildVars, startVars,
                 fit_calls, global_step, best_k_models, save_calls>>

\* training is interrupted or fails: the exception leaves main
FitRaises ==
  /\ pc = "training"
  /\ Raise("TrainingError")
  /\ UNCHANGED <<fsVars, optVars, cfgVars, buildVars, startVars, fitVars,
                 save_calls>>

(***************************************************************************)
(* Lines 184-187: the final weights-only checkpoint of a finetune run.     *)
(***************************************************************************)
\* a variant that saves the final checkpoint in every run
SavesFinal_Always(isFt) == TRUE

\* line 184
SavesFinal(isFt) == isFt

\* a variant that puts the final checkpoint inside the checkpoint directory
FinalCkptPath_InDir(cfg) ==
  PathStr(PathJoin(PathJoin(<<CKPT>>, cfg["model_name"]),
                   cfg["model_name"] \o DOT_CKPT))

\* line 186
FinalCkptPath(cfg) == PathStr(PathJoin(<<CKPT>>, cfg["model_name"])) \o DOT_CKPT

AfterFit ==
  /\ pc = "after_fit"
  /\ pc' = "done"
  /\ IF SavesFinal(ft)
     THEN /\ save_calls' =
               Append(save_calls,
                      [filepath |-> FinalCkptPath(config), weights_only |-> TRUE])
          /\ files' = files \cup {PathOf(FinalCkptPath(config))}
          /\ weights_files' = weights_files \cup {PathOf(FinalCkptPath(config))}
     ELSE UNCHANGED <<files, weights_files, save_calls>>
  /\ UNCHANGED <<dirs, exception, optVars, cfgVars, buildVars, startVars,
                 fitVars>>

(***************************************************************************)
(* The process ends, normally or by the unhandled exception; the files it  *)
(* wrote stay.                                                             *)
(***************************************************************************)
Exit ==
  /\ pc \in {"done", "failed"}
  /\ pc' = "idle"
  /\ exception' = ""
  /\ resume' = FALSE
  /\ ft' = FALSE
  /\ pretrained_model_path' = NoneVal
  /\ config' = EmptyConfig
  /\ config_global' = EmptyConfig
  /\ checkpoint_callback' = Unbound
  /\ trainer' = Unbound
  /\ loaded' = FALSE
  /\ ckpt_path' = NoneVal
  /\ fit_calls' = << >>
  /\ fit_returned' = FALSE
  /\ global_step' = 0
  /\ best_k_models' = {}
  /\ save_calls' = << >>
  /\ UNCHANGED <<fsVars, yaml_files>>

(***************************************************************************)
(* Between runs the user copies files into the checkpoint directory or     *)
(* deletes files of the checkpoint area.                                   *)
(***************************************************************************)
UserAddsFile ==
  /\ pc = "idle"
  /\ SaveDir \in dirs
  /\ Cardinality(files \cap UserFiles) < MaxUserFiles
  /\ \E p \in UserFiles \ files :
       /\ files' = files \cup {p}
       /\ dirs' = Mkdir(dirs, Parent(p))
  /\ UNCHANGED weights_files
  /\ UNCHANGED <<pc, exception, optVars, cfgVars, buildVars, startVars,
                 fitVars, save_calls>>

UserRemovesFile ==
  /\ pc = "idle"
  /\ \E p \in files :
       /\ files' = files \ {p}
       /\ weights_files' = weights_files \ {p}
  /\ UNCHANGED <<dirs, pc, exception, optVars, cfgVars, buildVars, startVars,
                 fitVars, save_calls>>

Next ==
  \/ StartMain
  \/ LoadConfigs
  \/ UpdateConfig
  \/ Setup
  \/ ResolveCkpt
  \/ CallFit
  \/ TrainStep
  \/ FitReturns
  \/ FitRaises
  \/ AfterFit
  \/ Exit
  \/ UserAddsFile
  \/ UserRemovesFile

Spec == Init /\ [][Next]_vars

(***************************************************************************)
(* Vocabulary of the properties.                                           *)
(***************************************************************************)
\* the .ckpt files under ckpt/<model_name>/, at any depth
CkptFiles == {p \in files : IsUnder(p, SaveDir) /\ EndsWith(Name(p), DOT_CKPT)}

\* the name of p without ".ckpt"
BareName(p) == SubSeq(Name(p), 1, Len(Name(p)) - Len(DOT_CKPT))

\* the longest run of digits a string ends in
RECURSIVE TrailingDigits(_)
TrailingDigits(s) ==
  IF s # << >> /\ IsDigit(Last(s))
  THEN Append(TrailingDigits(SubSeq(s, 1, Len(s) - 1)), Last(s))
  ELSE << >>

\* the name of p ends in step=<N>, N a decimal number
EndsInStepN(p) ==
  LET digits == TrailingDigits(BareName(p))
  IN  /\ digits # << >>
      /\ EndsWith(SubSeq(BareName(p), 1, Len(BareName(p)) - Len(digits)), STEP_EQ)

RECURSIVE Decimal(_)
Decimal(digits) ==
  IF digits = << >> THEN 0
  ELSE 10 * Decimal(SubSeq(digits, 1, Len(digits) - 1)) + DigitVal[Last(digits)]

\* the N of a name that ends in step=<N>
StepN(p) == Decimal(TrailingDigits(BareName(p)))

Matching == {p \in CkptFiles : EndsInStepN(p)}

\* this run is a resume run: --resume without --pretrained_model_path
ResumeRun == resume /\ pretrained_model_path = NoneVal

\* trainer.fit has just been called and has written nothing yet, so the
\* files are those the scan saw
JustCalledFit == pc = "training" /\ Len(fit_calls) = 1 /\ best_k_models = {}

\* s is the path of a file of F with the highest step number of F
IsLatestOf(s, F) ==
  \E f \in F : PathOf(s) = f /\ \A q \in F : StepN(q) <= StepN(f)

(***************************************************************************)
(* C1: in a resume run over a directory whose .ckpt files all end in       *)
(* step=<N>, and that holds at least one, the ckpt_path handed to          *)
(* trainer.fit is a file with the numerically highest N.                   *)
(***************************************************************************)
C1_ResumePicksNumericMax ==
  (JustCalledFit /\ ResumeRun /\ CkptFiles # {} /\ CkptFiles = Matching)
    => IsLatestOf(fit_calls[1], CkptFiles)

\* steps 5 and 10 are both there: 10 is picked, "5" sorts last as a string
C1_Witness ==
  /\ JustCalledFit /\ ResumeRun /\ CkptFiles = Matching
  /\ \E p, q \in CkptFiles : StepN(p) = 5 /\ StepN(q) = 10
  /\ StepN(PathOf(fit_calls[1])) = 10

(***************************************************************************)
(* C2: a run starts in one of three modes.  With a pretrained path the     *)
(* weights are loaded and fit gets ckpt_path = None, also under --resume;  *)
(* a resume run hands fit the latest checkpoint (None when there is none); *)
(* with neither option nothing is loaded and fit gets None.  ckpt_path is  *)
(* not None only in a resume run.                                          *)
(***************************************************************************)
C2_StartModes ==
  /\ Len(fit_calls) <= 1
  /\ ckpt_path # NoneVal => ResumeRun
  /\ loaded => pretrained_model_path # NoneVal
  /\ fit_calls # << >> =>
       /\ fit_calls[1] = ckpt_path
       /\ pretrained_model_path # NoneVal => loaded /\ fit_calls[1] = NoneVal
       /\ (ResumeRun /\ JustCalledFit) =>
            \/ CkptFiles = {} /\ fit_calls[1] = NoneVal
            \/ IsLatestOf(fit_calls[1], CkptFiles)
       /\ (pretrained_model_path = NoneVal /\ ~resume) =>
            ~loaded /\ fit_calls[1] = NoneVal

\* --resume and a pretrained path together, with checkpoints to resume from
C2_Witness ==
  /\ JustCalledFit /\ resume /\ pretrained_model_path # NoneVal
  /\ Matching # {} /\ loaded /\ fit_calls[1] = NoneVal

(***************************************************************************)
(* C3: a resume run over a directory without any .ckpt file raises         *)
(* nothing: ckpt_path stays None and trainer.fit is called with it.        *)
(***************************************************************************)
C3_ResumeWithoutCkpts ==
  [][(ResumeRun /\ CkptFiles = {}) =>
       /\ pc = "resolve" =>
            pc' = "fit" /\ ckpt_path' = NoneVal /\ exception' = ""
       /\ pc = "fit" => pc' = "training" /\ fit_calls' = <<NoneVal>>]_vars

\* fit was called with None although the checkpoint area is not empty
C3_Witness ==
  /\ JustCalledFit /\ ResumeRun /\ CkptFiles = {} /\ files # {}
  /\ fit_calls = <<NoneVal>>

(***************************************************************************)
(* C4: a .ckpt file whose name does not end in step=<integer> is no        *)
(* candidate of the resume scan: it neither stops main before trainer.fit  *)
(* nor changes the checkpoint selected among the matching files.           *)
(***************************************************************************)
C4_NonMatchingIgnored ==
  ResumeRun =>
    /\ ~(pc = "failed" /\ exception = "ValueError")
    /\ JustCalledFit =>
         \/ Matching = {} /\ fit_calls[1] = NoneVal
         \/ IsLatestOf(fit_calls[1], Matching)

(***************************************************************************)
(* C5: the config merge gives every key of the global config the global    *)
(* config's value, leaves every key only the run config has at the run     *)
(* config's value, and the keys of the result are the keys of both.        *)
(***************************************************************************)
C5_GlobalConfigOverrides ==
  [][pc = "update" =>
       /\ DOMAIN config' = DOMAIN config \cup DOMAIN config_global
       /\ \A k \in DOMAIN config_global : config'[k] = config_global[k]
       /\ \A k \in DOMAIN config \ DOMAIN config_global :
            config'[k] = config[k]]_vars

\* after the merge: num_ckpt_keep is the global 2, val_check_interval the
\* 5 that only the run config defines
C5_Witness ==
  /\ pc = "setup"
  /\ "num_ckpt_keep" \in DOMAIN config_global
  /\ "val_check_interval" \notin DOMAIN config_global
  /\ DOMAIN config = ConfigKeys
  /\ config["num_ckpt_keep"] = 2
  /\ config["val_check_interval"] = 5

(***************************************************************************)
(* C6: save_checkpoint is called at most once, only in a finetune run,     *)
(* only after trainer.fit returned, weights only, to ckpt/<model_name>.ckpt*)
(* and a run that ends normally has called it exactly when --ft is set.    *)
(***************************************************************************)
C6_FinalCheckpoint ==
  /\ Len(save_calls) <= 1
  /\ save_calls # << >> =>
       /\ ft /\ fit_returned /\ pc = "done"
       /\ save_calls[1].weights_only
       /\ save_calls[1].filepath = CKPT \o SLASH \o ModelName \o DOT_CKPT
  /\ pc = "done" => (ft <=> Len(save_calls) = 1)

C6_Witness ==
  /\ pc = "done" /\ ft /\ Len(save_calls) = 1
  /\ <<CKPT, ModelName \o DOT_CKPT>> \in files

(***************************************************************************)
(* C7: in a finetune run no ModelCheckpoint is built or handed to the      *)
(* trainer and training writes no file; otherwise the trainer gets exactly *)
(* one ModelCheckpoint, monitoring 'step' in mode 'max', keeping           *)
(* num_ckpt_keep files and saving every val_check_interval steps.          *)
(***************************************************************************)
C7_Callbacks ==
  trainer # Unbound =>
    LET handed == {i \in DOMAIN trainer.callbacks :
                     trainer.callbacks[i].kind = "ModelCheckpoint"}
    IN  IF ft
        THEN checkpoint_callback = PyNone /\ handed = {} /\ best_k_models = {}
        ELSE /\ Cardinality(handed) = 1
             /\ \A i \in handed :
                  /\ trainer.callbacks[i] = checkpoint_callback
                  /\ trainer.callbacks[i].monitor = "step"
                  /\ trainer.callbacks[i].mode = "max"
                  /\ trainer.callbacks[i].save_top_k = config["num_ckpt_keep"]
                  /\ trainer.callbacks[i].every_n_train_steps =
                       config["val_check_interval"]

C7_FtTrainingWritesNothing == (ft /\ pc = "training") => files' = files

BadYaml == \E i \in 1..3 : yaml_files[i] # "ok"

C8_NothingBuilt ==
  (pc # "idle" /\ BadYaml) =>
    /\ pc \in {"open", "failed"}
    /\ pc = "failed" => exception \in {"FileNotFoundError", "YAMLError"}
    /\ trainer = Unbound /\ checkpoint_callback = Unbound
    /\ fit_calls = << >> /\ save_calls = << >>

C8_NothingTouched ==
  (pc # "idle" /\ BadYaml) =>
    /\ files' = files /\ dirs' = dirs
    /\ pc = "open" => pc' = "failed"

C8_BadYamlEndsMain == []C8_NothingBuilt /\ [][C8_NothingTouched]_vars

\* the last of the three files is malformed, in a fresh checkpoint area
C8_Witness ==
  /\ pc = "failed" /\ exception = "YAMLError"
  /\ yaml_files = <<"ok", "ok", "malformed">>
  /\ resume /\ ft /\ SaveDir \notin dirs

(***************************************************************************)
(* C9: the weights-only file of a finetune run is never among the files    *)
(* the resume scan enumerates: no resume run selects it, and none fails on *)
(* its name.                                                               *)
(***************************************************************************)
C9_FinalCkptNotScanned ==
  /\ weights_files \cap CkptFiles = {}
  /\ \A w \in weights_files : PathOf(ckpt_path) # w
  /\ (ResumeRun /\ pc = "failed" /\ exception = "ValueError") =>
       \E p \in CkptFiles \ weights_files : ~EndsInStepN(p)

\* a resume run found a checkpoint next to the file of a finetune run
C9_Witness ==
  /\ pc = "fit" /\ ResumeRun /\ weights_files # {} /\ ckpt_path # NoneVal

(***************************************************************************)
(* C10: the step number a resume run selects depends on the set of .ckpt   *)
(* files alone: whatever the order the scan yields them in, the outcome    *)
(* is the same failure or a checkpoint of the same step.                   *)
(***************************************************************************)
StepOfPath(s) == IF s = NoneVal THEN 0 - 1 ELSE StepN(PathOf(s))

C10_OrderIndependent ==
  [][(pc = "resolve" /\ ResumeRun) =>
       \A o \in Orders(CkptFiles) :
         LET other == LatestCkpt(o) IN
         IF other.err # ""
         THEN pc' = "failed" /\ exception' = other.err
         ELSE pc' = "fit" /\ StepOfPath(ckpt_path') = StepOfPath(other.path)]_vars

\* two files of the highest step in different directories; the one in the
\* subdirectory was selected
C10_Witness ==
  /\ pc = "fit" /\ ResumeRun
  /\ \E p, q \in CkptFiles :
       /\ p # q /\ StepN(p) = StepN(q)
       /\ \A r \in CkptFiles : StepN(r) <= StepN(p)
       /\ Len(p) > Len(q) /\ PathOf(ckpt_path) = p

====
